---- MODULE Spec2Model ----
(***************************************************************************)
(* Streaming conditional TTS controller of MiniCPM-o                       *)
(* (MiniCPMOChatSpeechModel: prefill_text, prefill_audio_ids, generate)    *)
(* and the streaming mask generator make_streaming_chunk_mask_generation.  *)
(*                                                                         *)
(* Tensors are abstracted to their shapes and to tags that say which       *)
(* operation wrote a slot; audio codes are kept as integers.  Indices are  *)
(* 0-based as in the source; a sequence s holds index j at s[j + 1].       *)
(***************************************************************************)
EXTENDS Integers, Sequences, FiniteSets, TLC

VARIABLES
    use_speaker_embedding,    \* config.use_speaker_embedding of the instance
    initial_kv_cache_length,  \* length the caller pre-allocated the cache with
    audio_input_ids,          \* caller-held audio-id sequence (rows of num_vq codes)
    past_key_values,          \* caller-held KV cache: layer -> [k, v] slot tags
    audio_positions,          \* positions the backbone appended to the caller-held cache
    pc,                       \* "idle" | "loop" | "done": position inside generate
    i,                        \* generate: loop iterations executed in this call
    progress,                 \* generate: running length of input_ids
    input_ids_buf,            \* generate: pre-allocated buffer
    kv,                       \* generate: its local past_key_values
    finish,                   \* generate: finish flag (batch of one)
    idx_next,                 \* generate: the row sampled by the last step
    args,                     \* generate: arguments of the running call
    out,                      \* what the last call returned or raised
    mg                        \* inputs and results of the mask generator (SpecMask)

vars == <<use_speaker_embedding, initial_kv_cache_length, audio_input_ids, past_key_values,
          audio_positions, pc, i, progress, input_ids_buf, kv, finish, idx_next, args,
          out, mg>>

----------------------------------------------------------------------------
(* Configuration of the modelled instance (scaled down) and bounds.        *)

NumLayers == 2
NumVq == 2
NumAudioTokens == 2
NumSpkEmbs == 1
ReservedLen == 2
TextChunkSize == 1
DefaultAudioChunkSize == 50
DefaultNumSpkEmb == 1
MaxNewToken == 2
MaxRows == 3
MaxPrefills == 1
MaxPrefillAudio == 1

\* eos_token argument of generate: the last code of the vocabulary
EosToken == NumAudioTokens - 1

Codes == 0 .. (NumAudioTokens - 1)
Layers == 1 .. NumLayers
ZeroRow == [q \in 1 .. NumVq |-> 0]
Rows == [1 .. NumVq -> Codes]

\* slot tags of the KV cache
ZeroSlot == 0
AudioSlot == -1

Min(a, b) == IF a < b THEN a ELSE b
Max(a, b) == IF a > b THEN a ELSE b

\* math.ceil(a / b) for b > 0
Ceil(a, b) == -((-a) \div b)

\* bool * int as Python multiplies them
BoolInt(b) == IF b THEN 1 ELSE 0

\* Python/torch slice bound: negative counts from the end, then clamped
PyIdx(x, len) == IF x < 0 THEN Max(len + x, 0) ELSE Min(x, len)

\* the 0-based indices selected by t[a:b] on a dimension of size len
SliceIdx(a, b, len) == {j \in 0 .. (len - 1) : PyIdx(a, len) <= j /\ j < PyIdx(b, len)}

----------------------------------------------------------------------------
(* make_streaming_chunk_mask_generation                                    *)

\* torch.finfo(dtype).min, the value of a hidden position; 0 is visible
MinDtype == -1

\* a streaming_tts_text_mask argument: a 1-D tensor of 0/1 entries, or the default None
TextMask(m) == [tensor |-> TRUE, m |-> m]
NoneMask == [tensor |-> FALSE, m |-> <<>>]

\* a schedule that counts only completed audio chunks (floor instead of ceil)
InvisibleTextTokensStartFloor(past_seen_tokens, reserved, audio_chunk, text_chunk, num_spk_emb, use_spk_emb) ==
    Min(((past_seen_tokens - reserved) \div audio_chunk) * text_chunk, reserved)
        + 1 + num_spk_emb * BoolInt(use_spk_emb)

InvisibleTextTokensStart(past_seen_tokens, reserved, audio_chunk, text_chunk, num_spk_emb, use_spk_emb) ==
    Min(Ceil(past_seen_tokens - reserved, audio_chunk) * text_chunk, reserved)
        + 1 + num_spk_emb * BoolInt(use_spk_emb)

\* an end bound one position past audio-bos
InvisibleTextTokensEndLate(reserved, num_spk_emb, use_spk_emb) ==
    reserved + 1 + num_spk_emb * BoolInt(use_spk_emb) + 2

\* an end bound at the audio-bos position, which the range then leaves out
InvisibleTextTokensEndAtBos(reserved, num_spk_emb, use_spk_emb) ==
    reserved + 1 + num_spk_emb * BoolInt(use_spk_emb)

InvisibleTextTokensEnd(reserved, num_spk_emb, use_spk_emb) ==
    reserved + 1 + num_spk_emb * BoolInt(use_spk_emb) + 1

\* the slice the text mask is applied to: causal_mask[0, 0 : 1 + spk + reserved + 1]
TextMaskRegion(len, reserved, num_spk_emb, use_spk_emb) ==
    SliceIdx(0, 1 + num_spk_emb * BoolInt(use_spk_emb) + reserved + 1, len)

\* masked_fill_ needs the mask broadcastable to the slice; None is no tensor
TextMaskFits(tmask, region) ==
    /\ tmask.tensor
    /\ Len(tmask.m) = Cardinality(region) \/ Len(tmask.m) = 1

TextMaskAt(tmask, j) == IF Len(tmask.m) = 1 THEN tmask.m[1] ELSE tmask.m[j + 1]

\* [ok |-> it returned, mask |-> the causal mask of length past_seen_tokens + new_tokens]
MakeStreamingChunkMaskGeneration(new_tokens, past_seen_tokens, tmask, reserved, audio_chunk, text_chunk, num_spk_emb, use_spk_emb) ==
    LET len == past_seen_tokens + new_tokens
        start == InvisibleTextTokensStart(past_seen_tokens, reserved, audio_chunk,
                                          text_chunk, num_spk_emb, use_spk_emb)
        end == InvisibleTextTokensEnd(reserved, num_spk_emb, use_spk_emb)
        chunkHidden == SliceIdx(start, end, len)
        region == TextMaskRegion(len, reserved, num_spk_emb, use_spk_emb)
    IN  IF ~TextMaskFits(tmask, region)
        THEN [ok |-> FALSE, mask |-> <<>>]
        ELSE [ok |-> TRUE,
              mask |-> [p \in 1 .. len |->
                          IF \/ (p - 1) \in chunkHidden
                             \/ (p - 1) \in region /\ TextMaskAt(tmask, p - 1) = 0
                          THEN MinDtype ELSE 0]]

----------------------------------------------------------------------------
(* KV cache helpers                                                        *)

\* past_key_values[0][0].shape[2]
KvLen(pkv) == Len(pkv[1].k)

ZeroCache(len) == [l \in Layers |-> [k |-> [j \in 1 .. len |-> ZeroSlot],
                                     v |-> [j \in 1 .. len |-> ZeroSlot]]]

NoCache == [l \in Layers |-> [k |-> <<>>, v |-> <<>>]]

\* a forward that does not extend the cache (use_cache dropped)
BackboneKeep(pkv, n) == pkv

\* the backbone's forward with use_cache=True: every layer's key and value grow
\* by one slot per input position
BackboneAppend(pkv, n) ==
    [l \in Layers |-> [k |-> pkv[l].k \o [j \in 1 .. n |-> AudioSlot],
                       v |-> pkv[l].v \o [j \in 1 .. n |-> AudioSlot]]]

SlotTags(pkv) == UNION {{pkv[l].k[j] : j \in 1 .. Len(pkv[l].k)} \cup
                        {pkv[l].v[j] : j \in 1 .. Len(pkv[l].v)} : l \in Layers}

\* tag of the next text prefill: larger than every tag in the cache
NextStamp(pkv) == 1 + Max(0, CHOOSE t \in SlotTags(pkv) \cup {0} :
                                 \A u \in SlotTags(pkv) \cup {0} : u <= t)

----------------------------------------------------------------------------
(* merge_inputs_embeds and prefill_text                                    *)

\* text tokens: the speaker-embedding placeholder (spk_emb_token_id) or any other
SpkTok == "spk"
TxtTok == "txt"

\* config.use_mlp: the constructor's projector call takes the nn.Linear branch
UseMlp == FALSE

SpkPositions(tokens) == {j \in 1 .. Len(tokens) : tokens[j] = SpkTok}

\* apply_spk_emb: "none" or the exception it raises
ApplySpkEmbErr(tokens, num_spk_embs) ==
    LET pos == SpkPositions(tokens)
        begin_idx == CHOOSE a \in pos : \A b \in pos : a <= b
        end_idx == CHOOSE a \in pos : \A b \in pos : a >= b
    IN  IF Cardinality(pos) # num_spk_embs THEN "AssertionError"
        ELSE IF end_idx - begin_idx + 1 # num_spk_embs /\ num_spk_embs # 1
             THEN "RuntimeError"
             ELSE "none"

\* a merge_inputs_embeds that embeds the text whatever the configuration
MergeInputsEmbedsErrAnyConfig(batch, tokens, lm_given, use_spk) ==
    IF batch # 1 THEN "AssertionError"
    ELSE IF SpkPositions(tokens) = {} THEN "none"
    ELSE IF ~lm_given THEN "AssertionError"
    ELSE IF ~UseMlp THEN "AttributeError"
    ELSE ApplySpkEmbErr(tokens, NumSpkEmbs)

\* merge_inputs_embeds: "none" or the exception it raises
MergeInputsEmbedsErr(batch, tokens, lm_given, use_spk) ==
    IF batch # 1 THEN "AssertionError"
    ELSE IF ~use_spk THEN "NotImplementedError"
    ELSE IF SpkPositions(tokens) = {} THEN "none"
    ELSE IF ~lm_given THEN "AssertionError"
    ELSE IF ~UseMlp THEN "AttributeError"
    ELSE ApplySpkEmbErr(tokens, NumSpkEmbs)

\* the assigned slice without its last position (end bound position_ids[-1])
PrefillSlotsOpen(position_ids, len) ==
    SliceIdx(position_ids[1], position_ids[Len(position_ids)], len)

\* the cache slots prefill_text assigns: [position_ids[0] : position_ids[-1] + 1]
PrefillSlots(position_ids, len) ==
    SliceIdx(position_ids[1], position_ids[Len(position_ids)] + 1, len)

\* the same slice taken from the backbone's updated clone, whose length is
\* that of past_key_values[:position_ids[0]] plus the new tokens
PrefillSource(position_ids, len) ==
    PrefillSlots(position_ids, PyIdx(position_ids[1], len) + Len(position_ids))

\* a slice assignment that needs equal sizes
PrefillAssignFitsStrict(position_ids, len) ==
    Cardinality(PrefillSource(position_ids, len)) = Cardinality(PrefillSlots(position_ids, len))

\* the slice assignment needs equal sizes, or a source of size one
PrefillAssignFits(position_ids, len) ==
    \/ Cardinality(PrefillSource(position_ids, len)) = Cardinality(PrefillSlots(position_ids, len))
    \/ Cardinality(PrefillSource(position_ids, len)) = 1

\* handing back the backbone's updated clone (the cache cut at position_ids[0]
\* plus the new tokens) instead of writing into the caller's cache
PrefillWriteClone(pkv, position_ids, stamp) ==
    [l \in Layers |->
        [k |-> SubSeq(pkv[l].k, 1, PyIdx(position_ids[1], Len(pkv[l].k)))
                  \o [t \in 1 .. Len(position_ids) |-> stamp],
         v |-> SubSeq(pkv[l].v, 1, PyIdx(position_ids[1], Len(pkv[l].v)))
                  \o [t \in 1 .. Len(position_ids) |-> stamp]]]

\* the in-place slice assignment on every layer's key and value
PrefillWrite(pkv, position_ids, stamp) ==
    [l \in Layers |->
        [k |-> [j \in 1 .. Len(pkv[l].k) |->
                   IF (j - 1) \in PrefillSlots(position_ids, Len(pkv[l].k))
                   THEN stamp ELSE pkv[l].k[j]],
         v |-> [j \in 1 .. Len(pkv[l].v) |->
                   IF (j - 1) \in PrefillSlots(position_ids, Len(pkv[l].v))
                   THEN stamp ELSE pkv[l].v[j]]]]

\* prefill_text without its two leading asserts
PrefillTextErrUnchecked(batch, kv_given, tokens, position_ids, lm_given, use_spk, pkv) ==
    IF MergeInputsEmbedsErr(batch, tokens, lm_given, use_spk) # "none"
    THEN MergeInputsEmbedsErr(batch, tokens, lm_given, use_spk)
    ELSE IF ~PrefillAssignFits(position_ids, KvLen(pkv)) THEN "RuntimeError"
    ELSE "none"

\* prefill_text: "none" or the exception it raises
PrefillTextErr(batch, kv_given, tokens, position_ids, lm_given, use_spk, pkv) ==
    IF batch # 1 \/ ~kv_given THEN "AssertionError"
    ELSE IF MergeInputsEmbedsErr(batch, tokens, lm_given, use_spk) # "none"
         THEN MergeInputsEmbedsErr(batch, tokens, lm_given, use_spk)
    ELSE IF ~PrefillAssignFits(position_ids, KvLen(pkv)) THEN "RuntimeError"
    ELSE "none"

----------------------------------------------------------------------------
(* Session state: what the caller holds between calls                      *)

\* condition_length (and start_idx) of generate
ConditionLength(use_spk) == 1 + NumSpkEmbs * BoolInt(use_spk) + ReservedLen + 1

\* initial_kv_cache_length of the class docstring
InitialKvCacheLength == 1 + NumSpkEmbs + ReservedLen

\* longest audio-id sequence and cache the model explores
MaxSeqLen == InitialKvCacheLength + 1 + MaxRows

ZeroIds(n) == [j \in 1 .. n |-> ZeroRow]

NoArgs == [min_new_token |-> 0, max_new_token |-> 0, force_no_stop |-> FALSE,
           streaming_tts_text_mask |-> NoneMask]

MgIdle == [op |-> "idle"]

\* the text masks a caller passes: None, or all-valid masks as long as the
\* conditioning prefix (without and with the speaker slot)
TextMaskChoices ==
    {NoneMask} \cup
    {TextMask([j \in 1 .. n |-> 1]) : n \in {ConditionLength(FALSE), ConditionLength(TRUE)}}

\* min_new_token arguments: eos allowed from the start, or from step 1 on
MinNewTokenChoices == {0, 1}

\* a text chunk holds at most as many tokens as the reserved region
MaxTextTokens == ReservedLen

\* position_ids of a text chunk: contiguous from any position up to the first
\* one past the pre-allocated region, and three that are not contiguous
PositionIdChoices(len) ==
    {[t \in 1 .. n |-> p0 + t - 1] : p0 \in 0 .. len, n \in 1 .. MaxTextTokens}
    \cup {<<0, 0>>, <<1, 0>>, <<0, 2>>}

\* the caller's state after construction and allocation
SessionInit ==
    /\ use_speaker_embedding \in BOOLEAN
    /\ initial_kv_cache_length \in
          {ConditionLength(use_speaker_embedding) - 1, InitialKvCacheLength}
    /\ audio_input_ids = ZeroIds(initial_kv_cache_length + 1)
    /\ past_key_values = ZeroCache(initial_kv_cache_length)
    /\ audio_positions = 0
    /\ pc = "idle"
    /\ i = 0
    /\ progress = 0
    /\ input_ids_buf = <<>>
    /\ kv = NoCache
    /\ finish = FALSE
    /\ idx_next = ZeroRow
    /\ args = NoArgs
    /\ out = [op |-> "init", err |-> "none"]

Init == SessionInit /\ mg = MgIdle

GenerateIdle ==
    /\ pc' = "idle"
    /\ i' = 0
    /\ progress' = 0
    /\ input_ids_buf' = <<>>
    /\ kv' = NoCache
    /\ finish' = FALSE
    /\ idx_next' = ZeroRow
    /\ args' = NoArgs

----------------------------------------------------------------------------
(* prefill_text                                                            *)

\* a prefill_text that writes its slice whenever the slice fits, whatever
\* the embedding step raised
PrefillTextResultEager(pkv, err, position_ids, stamp) ==
    IF PrefillAssignFits(position_ids, KvLen(pkv))
    THEN PrefillWrite(pkv, position_ids, stamp)
    ELSE pkv

\* the caller's cache after the call: every raise comes before the first
\* slice assignment
PrefillTextResult(pkv, err, position_ids, stamp) ==
    IF err = "none" THEN PrefillWrite(pkv, position_ids, stamp) ELSE pkv

PrefillText(batch, kv_given, tokens, position_ids, lm_given) ==
    LET err == PrefillTextErr(batch, kv_given, tokens, position_ids, lm_given,
                              use_speaker_embedding, past_key_values)
        stamp == NextStamp(past_key_values)
    IN  /\ pc = "idle"
        /\ stamp <= MaxPrefills
        /\ past_key_values' = PrefillTextResult(past_key_values, err, position_ids, stamp)
        /\ out' = IF err = "none"
                  THEN [op |-> "prefill_text", err |-> err,
                        past_key_values |-> past_key_values',
                        position_ids |-> position_ids,
                        input_ids |-> tokens, lm_given |-> lm_given]
                  ELSE [op |-> "prefill_text", err |-> err,
                        position_ids |-> position_ids,
                        input_ids |-> tokens, lm_given |-> lm_given]
        /\ UNCHANGED <<use_speaker_embedding, initial_kv_cache_length, audio_input_ids,
                       audio_positions, pc, i, progress, input_ids_buf, kv, finish,
                       idx_next, args, mg>>

----------------------------------------------------------------------------
(* prefill_audio_ids                                                       *)

\* "none" or the exception it raises
PrefillAudioIdsErr(batch, kv_given, input_len, tmask, pkv) ==
    IF batch # 1 \/ ~kv_given THEN "AssertionError"
    ELSE IF ~MakeStreamingChunkMaskGeneration(input_len, KvLen(pkv), tmask, ReservedLen,
                DefaultAudioChunkSize, TextChunkSize, DefaultNumSpkEmb, TRUE).ok
         THEN IF tmask.tensor THEN "RuntimeError" ELSE "TypeError"
    ELSE "none"

\* input_len without the audio-bos position
PrefillAudioInputLenNoBos(rows, add_audio_bos) == rows

\* input_len: the rows given, plus one when the audio-bos embedding is prepended
PrefillAudioInputLen(rows, add_audio_bos) == rows + BoolInt(add_audio_bos)

\* position_ids = arange(past_key_values_length, past_key_values_length + input_len)
PrefillAudioPositionIds(past_key_values_length, input_len) ==
    [t \in 1 .. input_len |-> past_key_values_length + t - 1]

PrefillAudioIds(batch, kv_given, rows, add_audio_bos, tmask) ==
    LET input_len == PrefillAudioInputLen(rows, add_audio_bos)
        err == PrefillAudioIdsErr(batch, kv_given, input_len, tmask, past_key_values)
    IN  /\ pc = "idle"
        /\ input_len >= 1
        /\ KvLen(past_key_values) + input_len < MaxSeqLen
        /\ past_key_values' = IF err = "none"
                              THEN BackboneAppend(past_key_values, input_len)
                              ELSE past_key_values
        /\ audio_positions' = IF err = "none" THEN audio_positions + input_len
                              ELSE audio_positions
        /\ out' = IF err = "none"
                  THEN [op |-> "prefill_audio_ids", err |-> err,
                        past_key_values |-> past_key_values',
                        rows |-> rows, add_audio_bos |-> add_audio_bos,
                        position_ids |-> PrefillAudioPositionIds(KvLen(past_key_values),
                                                                 input_len)]
                  ELSE [op |-> "prefill_audio_ids", err |-> err]
        /\ UNCHANGED <<use_speaker_embedding, initial_kv_cache_length, audio_input_ids,
                       pc, i, progress, input_ids_buf, kv, finish, idx_next, args, mg>>

----------------------------------------------------------------------------
(* generate                                                                *)

\* s[a:b] on a sequence
SeqSlice(s, a, b) == SubSeq(s, PyIdx(a, Len(s)) + 1, PyIdx(b, Len(s)))

\* returning the sequence that was passed in instead of the narrowed buffer
InputIdsStale == audio_input_ids

\* input_ids = input_ids_buf.narrow(1, 0, progress)
InputIds == SubSeq(input_ids_buf, 1, progress)

HasEos(row) == \E q \in 1 .. NumVq : row[q] = EosToken

\* suppression that ends one step early (i + 1 < min_new_token)
EosSuppressedLate(step, min_new_token, force_no_stop) ==
    step + 1 < min_new_token \/ force_no_stop

\* eos is suppressed (logit -inf) at steps below min_new_token or under force_no_stop
EosSuppressed(step, min_new_token, force_no_stop) == step < min_new_token \/ force_no_stop

\* the rows torch.multinomial can return, one code per codebook
SampledRows(step, min_new_token, force_no_stop) ==
    {row \in Rows : EosSuppressed(step, min_new_token, force_no_stop) => ~HasEos(row)}

\* the mask of one generate step (the chunk size and speaker arguments are
\* left at the generator's defaults)
GenerateMask(pkv, tmask) ==
    MakeStreamingChunkMaskGeneration(1, KvLen(pkv), tmask, ReservedLen,
        DefaultAudioChunkSize, TextChunkSize, DefaultNumSpkEmb, TRUE)

\* a check that only asks for room for the next slot
ProgressCheckAtLeast(prog, pkv) == prog <= KvLen(pkv) + 1

\* audio_bos: the step that feeds the audio-bos token
AudioBos(prog, condition_length) == prog = condition_length

\* the assert at the top of every step
ProgressCheck(prog, pkv) == prog = KvLen(pkv) + 1

\* one loop step: "none" or the exception it raises
GenerateStepErr(prog, pkv, tmask, start_idx) ==
    IF ~ProgressCheck(prog, pkv) THEN "AssertionError"
    ELSE IF ~GenerateMask(pkv, tmask).ok
         THEN IF tmask.tensor THEN "RuntimeError" ELSE "TypeError"
    ELSE IF prog < start_idx THEN "RuntimeError"
    ELSE "none"

\* storing the sampled row one row early
StoreIndexBelow(prog) == prog - 1

\* the row index the sampled codes are stored at
StoreIndex(prog) == prog

\* progress never advanced
NextProgressStale(prog, step, fin) == prog

\* progress advanced on the step-0 break as well
NextProgressAlways(prog, step, fin) == prog + 1

\* break at step 0 leaves progress as it is; otherwise progress += 1
NextProgress(prog, step, fin) == IF step = 0 /\ fin THEN prog ELSE prog + 1

\* a loop that ends on a break only
LoopEndsOnEosOnly(step, fin, max_new_token) == fin

\* the loop ends on a break or when range(max_new_token) is exhausted
LoopEnds(step, fin, max_new_token) == fin \/ step + 1 = max_new_token

\* the slice that keeps the last row also when finished
NewIdsKeepLast(ids, fin, condition_length) == SeqSlice(ids, condition_length, Len(ids))

\* genrated_input_ids
NewIds(ids, fin, condition_length) ==
    IF fin THEN SeqSlice(ids, condition_length, -1)
    ELSE SeqSlice(ids, condition_length, Len(ids))

\* a buffer allocated without copying the rows passed in
InputIdsBufZero(ids, max_new_token) == ZeroIds(Len(ids) + max_new_token)

\* input_ids_buf: zeros of length progress + max_new_token, with the rows
\* passed in copied to its front
InputIdsBuf(ids, max_new_token) == ids \o ZeroIds(max_new_token)

GenerateBegin(batch, kv_given, min_new_token, max_new_token, force_no_stop, tmask) ==
    /\ pc = "idle"
    /\ Len(audio_input_ids) + max_new_token <= MaxSeqLen
    /\ IF batch # 1 \/ ~kv_given
       THEN /\ out' = [op |-> "generate", err |-> "AssertionError"]
            /\ UNCHANGED <<pc, i, progress, input_ids_buf, kv, finish, idx_next, args>>
       ELSE /\ pc' = IF max_new_token = 0 THEN "done" ELSE "loop"
            /\ i' = 0
            /\ progress' = Len(audio_input_ids)
            /\ input_ids_buf' = InputIdsBuf(audio_input_ids, max_new_token)
            /\ kv' = past_key_values
            /\ finish' = FALSE
            /\ idx_next' = ZeroRow
            /\ args' = [min_new_token |-> min_new_token, max_new_token |-> max_new_token,
                        force_no_stop |-> force_no_stop,
                        streaming_tts_text_mask |-> tmask]
            /\ out' = [op |-> "generate", err |-> "running"]
    /\ UNCHANGED <<use_speaker_embedding, initial_kv_cache_length, audio_input_ids,
                   past_key_values, audio_positions, mg>>

GenerateStep ==
    LET condition_length == ConditionLength(use_speaker_embedding)
        err == GenerateStepErr(progress, kv, args.streaming_tts_text_mask, condition_length)
    IN  /\ pc = "loop"
        /\ IF err # "none"
           THEN /\ GenerateIdle
                /\ out' = [op |-> "generate", err |-> err]
           ELSE \E row \in SampledRows(i, args.min_new_token, args.force_no_stop) :
                LET fin == finish \/ HasEos(row)
                IN  /\ kv' = BackboneAppend(kv, 1)
                    /\ idx_next' = row
                    /\ input_ids_buf' = [input_ids_buf EXCEPT ![StoreIndex(progress) + 1] = row]
                    /\ finish' = fin
                    /\ progress' = NextProgress(progress, i, fin)
                    /\ i' = i + 1
                    /\ pc' = IF LoopEnds(i, fin, args.max_new_token) THEN "done" ELSE "loop"
                    /\ UNCHANGED <<out, args>>
        /\ UNCHANGED <<use_speaker_embedding, initial_kv_cache_length, audio_input_ids,
                       past_key_values, audio_positions, mg>>

\* past_key_values of the return statement: the backbone's cache of the last step
ReturnedCache == kv

\* the return statement, and the caller's update of its two globals; the record
\* also notes the length of the sequence passed in and the steps the loop ran
GenerateReturn ==
    /\ pc = "done"
    /\ out' = [op |-> "generate", err |-> "none",
               new_ids |-> NewIds(InputIds, finish, ConditionLength(use_speaker_embedding)),
               audio_input_ids |-> InputIds,
               past_key_values |-> ReturnedCache,
               finished |-> finish,
               entry_len |-> Len(audio_input_ids),
               steps |-> i]
    /\ audio_input_ids' = InputIds
    /\ past_key_values' = ReturnedCache
    /\ audio_positions' = audio_positions + i
    /\ GenerateIdle
    /\ UNCHANGED <<use_speaker_embedding, initial_kv_cache_length, mg>>

----------------------------------------------------------------------------

\* prefill_text calls: rejected at the first asserts; chunks of plain text tokens
\* at any of the position choices; chunks holding speaker placeholders
DoPrefillText ==
    \/ \E batch \in 1 .. 2, kv_given \in BOOLEAN :
          /\ batch # 1 \/ ~kv_given
          /\ PrefillText(batch, kv_given, <<TxtTok>>, <<0>>, FALSE)
    \/ \E position_ids \in PositionIdChoices(initial_kv_cache_length) :
          PrefillText(1, TRUE, [t \in 1 .. Len(position_ids) |-> TxtTok], position_ids, FALSE)
    \/ \E n \in 1 .. MaxTextTokens, lm_given \in BOOLEAN :
       \E tokens \in [1 .. n -> {SpkTok, TxtTok}] :
          /\ SpkPositions(tokens) # {}
          /\ PrefillText(1, TRUE, tokens, [t \in 1 .. n |-> t - 1], lm_given)

DoPrefillAudioIds ==
    \/ \E batch \in 1 .. 2, kv_given \in BOOLEAN :
          /\ batch # 1 \/ ~kv_given
          /\ PrefillAudioIds(batch, kv_given, 1, FALSE, NoneMask)
    \/ \E rows \in 0 .. MaxPrefillAudio, add_audio_bos \in BOOLEAN, tmask \in TextMaskChoices :
          PrefillAudioIds(1, TRUE, rows, add_audio_bos, tmask)

DoGenerateBegin ==
    \/ \E batch \in 1 .. 2, kv_given \in BOOLEAN :
          /\ batch # 1 \/ ~kv_given
          /\ GenerateBegin(batch, kv_given, 0, 0, FALSE, NoneMask)
    \/ \E min_new_token \in MinNewTokenChoices, max_new_token \in 0 .. MaxNewToken :
       \E force_no_stop \in BOOLEAN, tmask \in TextMaskChoices :
          /\ force_no_stop => min_new_token = 0
          /\ GenerateBegin(1, TRUE, min_new_token, max_new_token, force_no_stop, tmask)

Next ==
    \/ DoPrefillText
    \/ DoPrefillAudioIds
    \/ DoGenerateBegin
    \/ GenerateStep
    \/ GenerateReturn

Spec == Init /\ [][Next]_vars

----------------------------------------------------------------------------
(* Layout of the audio-id sequence                                         *)

\* the session was started with an audio-id sequence of condition_length rows
StartedAtConditionLength ==
    initial_kv_cache_length + 1 = ConditionLength(use_speaker_embedding)

ZeroPrefix(ids, n) == Len(ids) >= n /\ \A j \in 1 .. n : ids[j] = ZeroRow

\* C1: in a session whose audio-id sequence starts with condition_length rows,
\* the rows 0 .. condition_length - 1 of the sequence stay all-zero, in the
\* caller's sequence, in generate's buffer and in what generate returns, and
\* generate stores sampled codes only at row indices >= condition_length.
C1_LayoutInvariant ==
    StartedAtConditionLength =>
        LET cl == ConditionLength(use_speaker_embedding)
        IN  /\ ZeroPrefix(audio_input_ids, cl)
            /\ pc # "idle" => ZeroPrefix(input_ids_buf, cl)
            /\ pc = "loop" => progress >= cl
            /\ (pc \in {"loop", "done"} /\ i > 0) =>
                  \A j \in 1 .. Len(input_ids_buf) :
                      input_ids_buf[j] # ZeroRow => j > cl
            /\ (out.op = "generate" /\ out.err = "none") =>
                  ZeroPrefix(out.audio_input_ids, cl)

\* a later generate call of such a session has stored a non-zero row
C1_Witness ==
    /\ StartedAtConditionLength
    /\ pc \in {"loop", "done"}
    /\ i > 0
    /\ Len(audio_input_ids) > ConditionLength(use_speaker_embedding)
    /\ idx_next # ZeroRow

----------------------------------------------------------------------------
(* Length of the KV cache                                                  *)

\* every layer's key and value have the same number of slots
UniformLayers(pkv) ==
    \A l \in Layers : Len(pkv[l].k) = KvLen(pkv) /\ Len(pkv[l].v) = KvLen(pkv)

\* C2 as stated: after prefill_text, prefill_audio_ids and any step of
\* generate, the cache has the same length in every layer and that length
\* equals the current length of the audio-id sequence (progress).
C2_AsStated ==
    /\ UniformLayers(past_key_values)
    /\ pc # "idle" => UniformLayers(kv)
    /\ (pc \in {"loop", "done"} /\ i > 0) => KvLen(kv) = progress
    /\ (out.op \in {"prefill_text", "prefill_audio_ids"} /\ out.err = "none") =>
          KvLen(past_key_values) = Len(audio_input_ids)

\* C2: the cache has the same length in every layer; after a step of generate
\* that length is progress - 1, and it is progress only when eos was sampled at
\* step 0, where the loop breaks before progress is advanced; prefill_text
\* leaves the length as it was and prefill_audio_ids adds its input length
\* without touching the audio-id sequence.
C2_CacheLengthConsistency ==
    /\ UniformLayers(past_key_values)
    /\ pc # "idle" => UniformLayers(kv)
    /\ (pc \in {"loop", "done"} /\ i > 0) =>
          KvLen(kv) = IF finish /\ i = 1 THEN progress ELSE progress - 1
    /\ (out.op \in {"prefill_text", "prefill_audio_ids"} /\ out.err = "none") =>
          /\ UniformLayers(out.past_key_values)
          /\ KvLen(out.past_key_values) = initial_kv_cache_length + audio_positions

\* two steps of a generate call have run after text was prefilled
C2_Witness ==
    /\ pc \in {"loop", "done"}
    /\ i = 2
    /\ KvLen(kv) = progress - 1
    /\ \E j \in 1 .. KvLen(kv) : kv[1].k[j] > ZeroSlot

\* the number of text positions prefilled so far, and of audio positions held
TextPositionsPrefilled(pkv) ==
    Cardinality({j \in 1 .. KvLen(pkv) : pkv[1].k[j] > ZeroSlot})

\* C3 as stated: the cache length equals 1 + the speaker-embedding slots + the
\* number of text positions prefilled so far + the number of audio positions
\* generated or prefilled so far.
C3_AsStated ==
    KvLen(past_key_values) =
        1 + NumSpkEmbs * BoolInt(use_speaker_embedding)
          + TextPositionsPrefilled(past_key_values) + audio_positions

\* C3: the cache length equals the pre-allocated length (1 + the speaker slots
\* + the whole reserved text region, prefilled or not) + the number of audio
\* positions generated or prefilled so far; prefilling text never changes it.
C3_CacheLengthAccounting ==
    /\ initial_kv_cache_length \in
          {1 + NumSpkEmbs * BoolInt(use_speaker_embedding) + ReservedLen,
           1 + NumSpkEmbs + ReservedLen}
    /\ KvLen(past_key_values) = initial_kv_cache_length + audio_positions
    /\ pc # "idle" => KvLen(kv) = initial_kv_cache_length + audio_positions + i

\* text was prefilled and audio positions were added
C3_Witness ==
    /\ pc = "idle"
    /\ audio_positions > 0
    /\ TextPositionsPrefilled(past_key_values) > 0
    /\ TextPositionsPrefilled(past_key_values) < ReservedLen

----------------------------------------------------------------------------
(* The streaming protocol of the class docstring                           *)

\* the cache and sequence are allocated as the docstring prescribes
StreamingInit == Init /\ initial_kv_cache_length = InitialKvCacheLength

\* the session goes on until a generate call returns finished=True
SessionOpen == ~(out.op = "generate" /\ out.err = "none" /\ out.finished)

\* prefill_text and generate calls only, each on what the previous one returned
StreamingNext ==
    /\ SessionOpen
    /\ \/ DoPrefillText
       \/ DoGenerateBegin
       \/ GenerateStep
       \/ GenerateReturn

SpecStreaming == StreamingInit /\ [][StreamingNext]_vars

\* C4: in a session initialised as the docstring prescribes and continued by
\* prefill_text calls and generate calls that returned finished=False,
\* progress == cache length + 1 holds at the top of every generate step.
C4_ProtocolSoundness ==
    /\ pc = "loop" => ProgressCheck(progress, kv)
    /\ (pc = "idle" /\ SessionOpen) => Len(audio_input_ids) = KvLen(past_key_values) + 1

\* a step of a later generate call, after text was prefilled and an earlier
\* call returned unfinished
C4_Witness ==
    /\ pc = "loop"
    /\ i = 1
    /\ audio_positions > 0
    /\ TextPositionsPrefilled(kv) > 0
    /\ ProgressCheck(progress, kv)

----------------------------------------------------------------------------
(* Frame of prefill_text                                                   *)

ContiguousPositionIds ==
    {[t \in 1 .. n |-> p0 + t - 1] : p0 \in 0 .. MaxSeqLen, n \in 1 .. MaxTextTokens}

\* what a returning prefill_text call at position_ids did to the caller's cache
PrefillTextFrame(position_ids) ==
    LET p0 == position_ids[1]
        pk == position_ids[Len(position_ids)]
        fresh(x) == x > ZeroSlot /\ x \notin SlotTags(past_key_values)
    IN  /\ UniformLayers(past_key_values')
        /\ KvLen(past_key_values') = KvLen(past_key_values)
        /\ \A l \in Layers : \A j \in 0 .. KvLen(past_key_values) - 1 :
              IF p0 <= j /\ j <= pk
              THEN fresh(past_key_values'[l].k[j + 1]) /\ fresh(past_key_values'[l].v[j + 1])
              ELSE /\ past_key_values'[l].k[j + 1] = past_key_values[l].k[j + 1]
                   /\ past_key_values'[l].v[j + 1] = past_key_values[l].v[j + 1]
        /\ out'.past_key_values = past_key_values'

----------------------------------------------------------------------------
(* Stopping of generate                                                    *)

\* C6: under force_no_stop, and at steps below min_new_token, no sampled code
\* is eos; a force_no_stop call runs exactly max_new_token steps and returns
\* finished=False.
C6_EosSuppression ==
    /\ (pc \in {"loop", "done"} /\ i > 0
        /\ (args.force_no_stop \/ i - 1 < args.min_new_token)) =>
          /\ \A q \in 1 .. NumVq : idx_next[q] # EosToken
          /\ \A q \in 1 .. NumVq : input_ids_buf[progress][q] # EosToken
    /\ (pc \in {"loop", "done"} /\ args.force_no_stop) => ~finish
    /\ (pc = "done" /\ args.force_no_stop) => i = args.max_new_token
    /\ (pc = "loop" /\ args.force_no_stop) => i < args.max_new_token

\* a force_no_stop call has run all its steps
C6_Witness ==
    /\ pc = "done"
    /\ args.force_no_stop
    /\ i = MaxNewToken
    /\ ~finish

\* C7: a generate call that completes max_new_token steps without sampling eos
\* raises nothing and returns finished=False, an audio-id sequence and a cache
\* each exactly max_new_token longer than on entry.
C7_BudgetExhaustion ==
    [][(pc = "done" /\ ~finish /\ i = args.max_new_token) =>
          /\ out'.op = "generate"
          /\ out'.err = "none"
          /\ out'.finished = FALSE
          /\ Len(out'.audio_input_ids) = Len(audio_input_ids) + args.max_new_token
          /\ KvLen(out'.past_key_values) = KvLen(past_key_values) + args.max_new_token
          /\ UniformLayers(out'.past_key_values)]_vars

\* a call returned after max_new_token > 1 steps without eos
C7_Witness ==
    /\ out.op = "generate"
    /\ out.err = "none"
    /\ ~out.finished
    /\ out.steps = MaxNewToken
    /\ Len(out.audio_input_ids) = out.entry_len + MaxNewToken

----------------------------------------------------------------------------
(* What generate returns                                                   *)

Returned == out.op = "generate" /\ out.err = "none"

\* the rows this call appended to the sequence it was given
RowsOfThisCall == SubSeq(out.audio_input_ids, out.entry_len + 1, Len(out.audio_input_ids))

\* C8 as stated: in a session started at condition_length rows, new_ids holds
\* exactly the rows newly generated by that call, without the final eos row
\* when finished.
C8_AsStated ==
    (Returned /\ StartedAtConditionLength) =>
        out.new_ids = IF out.finished
                      THEN SubSeq(RowsOfThisCall, 1, Len(RowsOfThisCall) - 1)
                      ELSE RowsOfThisCall

\* C8: new_ids holds the rows of the returned audio-id sequence from
\* condition_length on, the rows of earlier calls included, without the last
\* row of the returned sequence when finished.
C8_NewIdsCumulative ==
    Returned =>
        LET cl == ConditionLength(use_speaker_embedding)
            n == Len(out.audio_input_ids)
        IN  /\ n >= cl
            /\ out.new_ids =
                  SubSeq(out.audio_input_ids, cl + 1, n - BoolInt(out.finished))
            /\ Len(out.new_ids) = Max(0, n - cl - BoolInt(out.finished))

\* a later call returned: new_ids is longer than the rows the call appended
C8_Witness ==
    /\ Returned
    /\ out.steps > 0
    /\ out.entry_len > ConditionLength(use_speaker_embedding)
    /\ Len(out.new_ids) > Len(RowsOfThisCall)

\* eos was sampled at step 0 of the call that returned
EosAtStepZero == Returned /\ out.steps = 1 /\ out.finished

----------------------------------------------------------------------------
(* The mask generator as a function of past_seen_tokens                    *)

MaxMaskReserved == 4
MaxMaskChunk == 2
MaxMaskNewTokens == 2
MaxPast == 8

\* text masks for a prefix of n positions: None, a broadcast one, all valid,
\* and one whose last text position is not supplied yet
MaskTextMasks(n) ==
    {NoneMask, TextMask(<<1>>), TextMask([j \in 1 .. n |-> 1]),
     TextMask([j \in 1 .. n |-> IF j = n - 1 THEN 0 ELSE 1])}

\* text masks as long as the reserved text region, as the class docstring
\* builds them: all valid, and one whose first entry is not valid
ReservedTextMasks(r) ==
    {TextMask([j \in 1 .. r |-> 1]), TextMask([j \in 1 .. r |-> IF j = 1 THEN 0 ELSE 1])}

MaskArgs ==
    UNION {{[reserved |-> r, audio_chunk |-> a, text_chunk |-> t, num_spk_emb |-> s,
             use_spk_emb |-> u, new_tokens |-> n, tmask |-> m] :
               a \in 1 .. MaxMaskChunk, t \in 1 .. MaxMaskChunk,
               n \in 1 .. MaxMaskNewTokens,
               m \in MaskTextMasks(1 + s * BoolInt(u) + r + 1) \cup ReservedTextMasks(r)} :
           r \in 1 .. MaxMaskReserved, s \in 0 .. 1, u \in BOOLEAN}

NoMask == [ok |-> FALSE, mask |-> <<>>]

MaskCallResult(a, past) ==
    MakeStreamingChunkMaskGeneration(a.new_tokens, past, a.tmask, a.reserved,
        a.audio_chunk, a.text_chunk, a.num_spk_emb, a.use_spk_emb)

\* the arguments are drawn; no call has been made
MaskInit ==
    /\ SessionInit
    /\ use_speaker_embedding
    /\ \E a \in MaskArgs, p \in 0 .. MaxPast :
          mg = [op |-> "mask", args |-> a, calls |-> 0, past |-> p, res |-> NoMask,
                prev_past |-> p, prev |-> NoMask]

\* one more call with the same arguments at the same or a later past_seen_tokens
MaskCall ==
    /\ mg.op = "mask"
    /\ \E b \in mg.past .. MaxPast :
          mg' = [mg EXCEPT !.calls = Min(mg.calls + 1, 2),
                           !.prev_past = mg.past, !.prev = mg.res,
                           !.past = b, !.res = MaskCallResult(mg.args, b)]
    /\ UNCHANGED <<use_speaker_embedding, initial_kv_cache_length, audio_input_ids,
                   past_key_values, audio_positions, pc, i, progress, input_ids_buf,
                   kv, finish, idx_next, args, out>>

SpecMask == MaskInit /\ [][MaskCall]_vars

\* the reserved text positions: after bos and the speaker slots
ReservedTextPositions(a) ==
    {j \in 0 .. MaxPast + MaxMaskNewTokens :
        /\ j >= 1 + a.num_spk_emb * BoolInt(a.use_spk_emb)
        /\ j < 1 + a.num_spk_emb * BoolInt(a.use_spk_emb) + a.reserved}

\* the reserved text positions a returned mask leaves visible
VisibleText(a, mask) ==
    {j \in ReservedTextPositions(a) : j < Len(mask) /\ mask[j + 1] = 0}

\* C10: for a fixed text mask and fixed chunk parameters, the reserved text
\* positions the generator leaves visible at past_seen_tokens a are visible at
\* every b >= a.
C10_MaskMonotone ==
    (mg.op = "mask" /\ mg.calls = 2 /\ mg.prev.ok /\ mg.res.ok) =>
        VisibleText(mg.args, mg.prev.mask) \subseteq VisibleText(mg.args, mg.res.mask)

----------------------------------------------------------------------------
(* Visibility rule of the mask                                             *)

\* the conditioning prefix of a generator call: bos, speaker slots, reserved
\* text, audio-bos
MaskConditionLength(a) == 1 + a.num_spk_emb * BoolInt(a.use_spk_emb) + a.reserved + 1

\* the text mask entry that applies to position j (a one-entry mask applies to all)
MaskEntry(a, j) == IF Len(a.tmask.m) = 1 THEN a.tmask.m[1] ELSE a.tmask.m[j + 1]

\* C11: a returned mask has length past_seen_tokens + new tokens; every
\* position at or after condition_length is visible (0), and every position
\* of the conditioning prefix whose text mask entry is zero is hidden,
\* whatever the chunk-reveal schedule says.
C11_MaskVisibilityRule ==
    (mg.op = "mask" /\ mg.res.ok) =>
        LET a == mg.args
            mask == mg.res.mask
        IN  /\ Len(mask) = mg.past + a.new_tokens
            /\ \A j \in 0 .. Len(mask) - 1 :
                  /\ j >= MaskConditionLength(a) => mask[j + 1] = 0
                  /\ (j < MaskConditionLength(a) /\ MaskEntry(a, j) = 0) =>
                        mask[j + 1] = MinDtype

\* a returned mask reaches past the prefix, and a position the schedule has
\* revealed is hidden by its zero text mask entry
C11_Witness ==
    /\ mg.op = "mask"
    /\ mg.res.ok
    /\ Len(mg.res.mask) > MaskConditionLength(mg.args) + 1
    /\ \E j \in 0 .. MaskConditionLength(mg.args) - 1 :
          /\ Len(mg.args.tmask.m) > 1
          /\ MaskEntry(mg.args, j) = 0
          /\ j < InvisibleTextTokensStart(mg.past, mg.args.reserved, mg.args.audio_chunk,
                    mg.args.text_chunk, mg.args.num_spk_emb, mg.args.use_spk_emb)
          /\ mg.res.mask[j + 1] = MinDtype

----------------------------------------------------------------------------
(* The chunk-reveal schedule along a session with the default configuration *)

DefaultReservedLen == 300
DefaultTextChunkSize == 10
MaxScheduleTokens == 150

\* past_seen_tokens of the generate step that produces the n-th audio token of
\* a session allocated as the class docstring prescribes: the cache holds bos,
\* the speaker slots, the reserved text region and one slot per earlier step
SchedulePast(n) == 1 + DefaultNumSpkEmb + DefaultReservedLen + (n - 1)

\* invisible_text_tokens_start of that step's mask
ScheduleStart(n) ==
    InvisibleTextTokensStart(SchedulePast(n), DefaultReservedLen, DefaultAudioChunkSize,
                             DefaultTextChunkSize, DefaultNumSpkEmb, TRUE)

\* the reserved text positions (counted from 0 within the region) below the start
RevealWindow(start) ==
    {t \in 0 .. DefaultReservedLen - 1 : 1 + DefaultNumSpkEmb + t < start}

ScheduleInit ==
    /\ SessionInit
    /\ use_speaker_embedding
    /\ mg = [op |-> "schedule", n |-> 1, past_seen_tokens |-> SchedulePast(1),
             invisible_text_tokens_start |-> ScheduleStart(1)]

\* the next generate step: the cache has grown by one slot
ScheduleStep ==
    /\ mg.op = "schedule"
    /\ mg.n < MaxScheduleTokens
    /\ mg' = [mg EXCEPT !.n = mg.n + 1,
                        !.past_seen_tokens = mg.past_seen_tokens + 1,
                        !.invisible_text_tokens_start =
                            InvisibleTextTokensStart(mg.past_seen_tokens + 1,
                                DefaultReservedLen, DefaultAudioChunkSize,
                                DefaultTextChunkSize, DefaultNumSpkEmb, TRUE)]
    /\ UNCHANGED <<use_speaker_embedding, initial_kv_cache_length, audio_input_ids,
                   past_key_values, audio_positions, pc, i, progress, input_ids_buf,
                   kv, finish, idx_next, args, out>>

SpecSchedule == ScheduleInit /\ [][ScheduleStep]_vars

\* C12: with the default configuration, the step that produces the n-th audio
\* token has a reveal window of exactly the first streaming_text_chunk_size
\* reserved text positions for 1 <= n <= streaming_audio_chunk_size, and one
\* more block of streaming_text_chunk_size positions for every further block
\* of streaming_audio_chunk_size audio tokens, up to the whole region.
C12_ChunkRevealSchedule ==
    mg.op = "schedule" =>
        RevealWindow(mg.invisible_text_tokens_start) =
            {t \in 0 .. DefaultReservedLen - 1 :
                t < Min(Ceil(mg.n, DefaultAudioChunkSize) * DefaultTextChunkSize,
                        DefaultReservedLen)}

----------------------------------------------------------------------------
(* Preconditions                                                           *)

\* C13: prefill_text, prefill_audio_ids and generate each fail with an
\* AssertionError when the batch size is not 1 or past_key_values is missing,
\* and leave the caller's KV cache and audio-id sequence as they were.
C13_FailFast ==
    [][\A batch \in 1 .. 2, kv_given \in BOOLEAN :
          (/\ batch # 1 \/ ~kv_given
           /\ \/ PrefillText(batch, kv_given, <<TxtTok>>, <<0>>, FALSE)
              \/ PrefillAudioIds(batch, kv_given, 1, FALSE, NoneMask)
              \/ GenerateBegin(batch, kv_given, 0, 0, FALSE, NoneMask))
          => /\ out'.err = "AssertionError"
             /\ pc' = "idle"
             /\ past_key_values' = past_key_values
             /\ audio_input_ids' = audio_input_ids
             /\ audio_positions' = audio_positions]_vars

\* a call was rejected in a session whose cache already holds text and audio
C13_Witness ==
    /\ out.err = "AssertionError"
    /\ out.op = "prefill_audio_ids"
    /\ audio_positions > 0
    /\ TextPositionsPrefilled(past_key_values) > 0

----------------------------------------------------------------------------
(* position_ids of prefill_text                                            *)

\* the filled prefix of the cache: the slots before the first one that still
\* holds its initial zeros
FilledLength(pkv) ==
    Cardinality({j \in 1 .. KvLen(pkv) : \A h \in 1 .. j : pkv[1].k[h] # ZeroSlot})

\* a prefill_text call with plain text tokens returned or failed in the slice assignment
PrefillTextDone == pc = "idle" /\ out'.op = "prefill_text" /\ out'.err \in {"none", "RuntimeError"}

----------------------------------------------------------------------------
(* speaker-embedding placeholders in prefill_text                           *)

\* the number of placeholder positions of the chunk of the last prefill_text call
PlaceholderCount == Cardinality(SpkPositions(out.input_ids))

\* C15: prefill_text fails whenever the number of speaker-embedding
\* placeholders in the chunk is not exactly num_spk_embs; when it is exactly
\* num_spk_embs (and the speaker hidden states are supplied to a well-formed
\* call) the call goes through, with the projected speaker embedding at the
\* placeholder positions.
C15_PlaceholderCountCheck ==
    out.op = "prefill_text" =>
        /\ PlaceholderCount # NumSpkEmbs => out.err # "none"
        /\ (/\ PlaceholderCount = NumSpkEmbs
            /\ out.lm_given
            /\ use_speaker_embedding
            /\ PrefillAssignFits(out.position_ids, KvLen(past_key_values)))
              => out.err = "none"


\* C16: a prefill_text call that fails on its speaker-embedding step (a chunk
\* holding placeholders, with or without the speaker hidden states) leaves the
\* caller's cache exactly as it was and hands back no cache.
C16_NoPartialOutput ==
    [][(/\ pc = "idle"
        /\ out'.op = "prefill_text"
        /\ SpkPositions(out'.input_ids) # {}
        /\ out'.err # "none")
          => /\ past_key_values' = past_key_values
             /\ "past_key_values" \notin DOMAIN out'
             /\ UNCHANGED <<audio_input_ids, audio_positions>>]_vars

\* a chunk holding a placeholder was refused for want of speaker hidden
\* states, on a cache that already holds audio positions
C16_Witness ==
    /\ out.op = "prefill_text"
    /\ SpkPositions(out.input_ids) # {}
    /\ ~out.lm_given
    /\ out.err = "AssertionError"
    /\ audio_positions > 0
    /\ KvLen(past_key_values) > initial_kv_cache_length

----------------------------------------------------------------------------
(* prefill_audio_ids                                                        *)

\* C17: a prefill_audio_ids call that is given n audio rows and returns has
\* extended the cache by exactly n + (1 if add_audio_bos else 0) positions
\* behind the positions it held on entry, with contiguous position ids that
\* start at the cache length on entry; it samples nothing and leaves the
\* audio-id sequence alone.
C17_PrefillAudioExtends ==
    [][(pc = "idle" /\ out'.op = "prefill_audio_ids" /\ out'.err = "none") =>
          LET n == out'.rows
              added == n + BoolInt(out'.add_audio_bos)
              len == KvLen(past_key_values)
          IN  /\ KvLen(past_key_values') = len + added
              /\ out'.past_key_values = past_key_values'
              /\ \A l \in Layers : SubSeq(past_key_values'[l].k, 1, len) = past_key_values[l].k
              /\ \A l \in Layers : \A j \in len + 1 .. len + added :
                    past_key_values'[l].k[j] = AudioSlot
              /\ Len(out'.position_ids) = added
              /\ \A t \in 1 .. added : out'.position_ids[t] = len + t - 1
              /\ UNCHANGED <<audio_input_ids, input_ids_buf, idx_next, progress, finish>>]_vars

\* audio rows were prefilled behind an audio-bos, after text had been
\* prefilled into the reserved region
C17_Witness ==
    /\ out.op = "prefill_audio_ids"
    /\ out.err = "none"
    /\ out.rows >= 1
    /\ out.add_audio_bos
    /\ out.position_ids[1] = initial_kv_cache_length
    /\ KvLen(past_key_values) = initial_kv_cache_length + out.rows + 1
    /\ \E j \in 1 .. initial_kv_cache_length : past_key_values[1].k[j] > ZeroSlot

----------------------------------------------------------------------------
(* CustomRepetitionPenaltyLogitsProcessorRepeat                             *)

MaxPenaltyLen == 2
MaxPastWindow == 2

\* vocabulary entries of the scores: scores.size(1) columns
PenaltyVocab == 0 .. NumAudioTokens - 1

\* one row of token history and one row of scores per codebook
PenaltyRows == 1 .. NumVq

\* logits, as integers around the sign boundary
LogitChoices == {-1, 0, 1}

\* penalties, strictly positive, as fractions <<numerator, denominator>>
PenaltyChoices == {<<2, 1>>, <<1, 2>>}

\* the constructor's max_input_ids
MaxInputIdsChoices == 1 .. NumAudioTokens + 1

RECURSIVE Pow(_, _)
Pow(b, c) == IF c = 0 THEN 1 ELSE b * Pow(b, c - 1)

\* input_ids.narrow(1, -past_window, past_window) when the history is longer
PenaltyWindow(row, past_window) ==
    IF Len(row) > past_window
    THEN SubSeq(row, Len(row) - past_window + 1, Len(row))
    ELSE row

\* F.one_hot(input_ids, scores.size(1)).sum(1)
Freq(input_ids, past_window) ==
    [r \in PenaltyRows |->
        [e \in PenaltyVocab |->
            Cardinality({t \in 1 .. Len(PenaltyWindow(input_ids[r], past_window)) :
                            PenaltyWindow(input_ids[r], past_window)[t] = e})]]

\* freq.narrow(0, max_input_ids, freq.size(0) - max_input_ids).zero_()
\* when freq.size(0) > max_input_ids: dimension 0 is the rows
FreqNarrowZero(freq, max_input_ids) ==
    [r \in PenaltyRows |->
        IF NumVq > max_input_ids /\ r - 1 >= max_input_ids
        THEN [e \in PenaltyVocab |-> 0]
        ELSE freq[r]]

\* __call__: alpha = penalty ^ freq; where(scores < 0, scores * alpha, scores / alpha),
\* each output a fraction <<numerator, denominator>>
RepetitionPenaltyCall(penalty, max_input_ids, past_window, input_ids, scores) ==
    LET freq == FreqNarrowZero(Freq(input_ids, past_window), max_input_ids)
    IN  [r \in PenaltyRows |->
            [e \in PenaltyVocab |->
                LET alpha == <<Pow(penalty[1], freq[r][e]), Pow(penalty[2], freq[r][e])>>
                    inp == <<scores[r][e] * alpha[1], alpha[2]>>
                    oth == <<scores[r][e] * alpha[2], alpha[1]>>
                    con == scores[r][e] < 0
                IN  IF con THEN inp ELSE oth]]

PenaltyHistories == UNION {[1 .. n -> PenaltyVocab] : n \in 0 .. MaxPenaltyLen}

PenaltyInit ==
    /\ SessionInit
    /\ use_speaker_embedding
    /\ mg = [op |-> "penalty", calls |-> 0]

\* one call of the processor on a freshly built instance
PenaltyCall ==
    /\ mg.op = "penalty"
    /\ mg.calls = 0
    /\ \E penalty \in PenaltyChoices, max_input_ids \in MaxInputIdsChoices,
          past_window \in 1 .. MaxPastWindow,
          input_ids \in [PenaltyRows -> PenaltyHistories],
          scores \in [PenaltyRows -> [PenaltyVocab -> LogitChoices]] :
          mg' = [op |-> "penalty", calls |-> 1,
                 penalty |-> penalty, max_input_ids |-> max_input_ids,
                 past_window |-> past_window, input_ids |-> input_ids,
                 scores |-> scores,
                 out |-> RepetitionPenaltyCall(penalty, max_input_ids, past_window,
                                               input_ids, scores)]
    /\ UNCHANGED <<use_speaker_embedding, initial_kv_cache_length, audio_input_ids,
                   past_key_values, audio_positions, pc, i, progress, input_ids_buf,
                   kv, finish, idx_next, args, out>>

SpecPenalty == PenaltyInit /\ [][PenaltyCall]_vars

\* the occurrences of entry e among the last past_window tokens of row r
OccurrenceCount(r, e) ==
    LET row == mg.input_ids[r]
        lo == Max(1, Len(row) - mg.past_window + 1)
    IN  Cardinality({t \in lo .. Len(row) : row[t] = e})

Sign(x) == IF x < 0 THEN -1 ELSE IF x > 0 THEN 1 ELSE 0

----------------------------------------------------------------------------
(* Capacity of the pre-allocated cache                                      *)

MaxExtraCapacity == 1

\* sessions whose audio-id sequence has condition_length rows and whose cache
\* is pre-allocated to condition_length - 1 slots or more
CapacityInit ==
    /\ use_speaker_embedding \in BOOLEAN
    /\ initial_kv_cache_length \in
          ConditionLength(use_speaker_embedding) - 1 ..
             ConditionLength(use_speaker_embedding) + MaxExtraCapacity
    /\ audio_input_ids = ZeroIds(ConditionLength(use_speaker_embedding))
    /\ past_key_values = ZeroCache(initial_kv_cache_length)
    /\ audio_positions = 0
    /\ pc = "idle"
    /\ i = 0
    /\ progress = 0
    /\ input_ids_buf = <<>>
    /\ kv = NoCache
    /\ finish = FALSE
    /\ idx_next = ZeroRow
    /\ args = NoArgs
    /\ out = [op |-> "init", err |-> "none"]
    /\ mg = MgIdle

SpecCapacity == CapacityInit /\ [][Next]_vars

\* the first step of the first generate call of a session
FirstStep ==
    /\ pc = "loop"
    /\ i = 0
    /\ audio_positions = 0
    /\ progress = ConditionLength(use_speaker_embedding)
    /\ KvLen(kv) = initial_kv_cache_length

\* the step went through: a slot was appended and a row stored
StepAccepted == i' = 1 /\ KvLen(kv') = KvLen(kv) + 1

\* C19 as stated: with a cache pre-allocated to any capacity of at least
\* condition_length and an audio-id sequence of condition_length rows, the
\* first step of generate passes the precondition check and is the audio-bos step.
C19_AsStated ==
    [][(/\ FirstStep
        /\ initial_kv_cache_length >= ConditionLength(use_speaker_embedding)
        /\ GenerateMask(kv, args.streaming_tts_text_mask).ok)
          => StepAccepted]_vars

\* C19: with an audio-id sequence of condition_length rows, the first step of
\* generate passes its precondition check exactly when the cache is
\* pre-allocated to condition_length - 1 slots (bos, speaker slots and the
\* reserved text region, without the audio-bos slot); it is then the audio-bos
\* step and goes through when the text mask fits.  A capacity of
\* condition_length or more fails the check with an AssertionError.
C19_CapacityExact ==
    [][FirstStep =>
          LET condition_length == ConditionLength(use_speaker_embedding)
          IN  /\ (out'.err = "AssertionError") <=> (initial_kv_cache_length # condition_length - 1)
              /\ out'.err = "AssertionError" => pc' = "idle"
              /\ (/\ initial_kv_cache_length = condition_length - 1
                  /\ GenerateMask(kv, args.streaming_tts_text_mask).ok)
                    => /\ StepAccepted
                       /\ AudioBos(progress, condition_length)
                       /\ input_ids_buf'[condition_length + 1] = idx_next']_vars

\* a cache of condition_length - 1 slots took the audio-bos step
C19_Witness ==
    /\ pc \in {"loop", "done"}
    /\ i = 1
    /\ audio_positions = 0
    /\ initial_kv_cache_length = ConditionLength(use_speaker_embedding) - 1
    /\ Len(audio_input_ids) = ConditionLength(use_speaker_embedding)
    /\ KvLen(kv) = ConditionLength(use_speaker_embedding)

----------------------------------------------------------------------------
(* Shape and indexing of the streaming text mask                            *)

\* the last call was made with a text mask of exactly streaming_reserved_length
\* entries, on a cache that holds the whole conditioning prefix
ReservedLenMaskCall ==
    /\ mg.op = "mask"
    /\ mg.calls >= 1
    /\ mg.args.tmask.tensor
    /\ Len(mg.args.tmask.m) = mg.args.reserved
    /\ mg.past >= MaskConditionLength(mg.args) - 1

\* C20: the mask generator accepts a text mask with exactly
\* streaming_text_reserved_len entries; entry j gates the j-th reserved text
\* position (the one after bos and the speaker slots) and leaves bos, the
\* speaker slots and audio-bos alone.
C20_TextMaskIndexing ==
    ReservedLenMaskCall =>
        LET a == mg.args
            first == 1 + a.num_spk_emb * BoolInt(a.use_spk_emb)
        IN  /\ mg.res.ok
            /\ \A j \in 0 .. a.reserved - 1 :
                  a.tmask.m[j + 1] = 0 => mg.res.mask[first + j + 1] = MinDtype
            /\ \A p \in 0 .. first - 1 : mg.res.mask[p + 1] = 0

----------------------------------------------------------------------------
(* A worked scenario of the mask generator                                  *)

ScenarioReservedLen == 10
ScenarioTextChunk == 2
ScenarioAudioChunk == 5
MaxScenarioTokens == 20

\* condition_length of the scenario: bos, no speaker slot, the reserved region, audio-bos
ScenarioConditionLength == 1 + ScenarioReservedLen + 1

\* the text mask of a caller that has prefilled the first `text` reserved
\* positions: one entry per position of the conditioning prefix
ScenarioTextMask(text) ==
    TextMask([j \in 1 .. ScenarioConditionLength |-> IF j - 1 <= text THEN 1 ELSE 0])

ScenarioStart(past) ==
    InvisibleTextTokensStart(past, ScenarioReservedLen, ScenarioAudioChunk,
                             ScenarioTextChunk, 0, FALSE)

ScenarioMask(past, text) ==
    MakeStreamingChunkMaskGeneration(1, past, ScenarioTextMask(text), ScenarioReservedLen,
        ScenarioAudioChunk, ScenarioTextChunk, 0, FALSE)

ScenarioState(text, n) ==
    [op |-> "scenario", text |-> text, n |-> n,
     past_seen_tokens |-> ScenarioConditionLength - 1 + n,
     invisible_text_tokens_start |-> ScenarioStart(ScenarioConditionLength - 1 + n),
     res |-> ScenarioMask(ScenarioConditionLength - 1 + n, text)]

ScenarioInit ==
    /\ SessionInit
    /\ use_speaker_embedding
    /\ mg = ScenarioState(0, 0)

\* one more text chunk is prefilled into the reserved region
ScenarioPrefill ==
    /\ mg.op = "scenario"
    /\ mg.text + ScenarioTextChunk <= ScenarioReservedLen
    /\ mg' = ScenarioState(mg.text + ScenarioTextChunk, mg.n)
    /\ UNCHANGED <<use_speaker_embedding, initial_kv_cache_length, audio_input_ids,
                   past_key_values, audio_positions, pc, i, progress, input_ids_buf,
                   kv, finish, idx_next, args, out>>

\* one more audio token is generated: the cache grows by one slot and the mask
\* is computed again
ScenarioGenerate ==
    /\ mg.op = "scenario"
    /\ mg.n < MaxScenarioTokens
    /\ mg' = ScenarioState(mg.text, mg.n + 1)
    /\ UNCHANGED <<use_speaker_embedding, initial_kv_cache_length, audio_input_ids,
                   past_key_values, audio_positions, pc, i, progress, input_ids_buf,
                   kv, finish, idx_next, args, out>>

SpecScenario == ScenarioInit /\ [][ScenarioPrefill \/ ScenarioGenerate]_vars

\* two text tokens prefilled, five audio tokens generated
AfterTwoTextFiveAudio == mg.op = "scenario" /\ mg.text = 2 /\ mg.n = 5

\* the reserved text positions (1 .. reserved, no speaker slot) the mask leaves visible
ScenarioVisibleText == {j \in 1 .. ScenarioReservedLen : mg.res.mask[j + 1] = 0}

----------------------------------------------------------------------------
(* The range hidden by the chunk-reveal schedule                            *)

\* the position of audio-bos: right after the reserved text region
AudioBosPosition(a) == 1 + a.num_spk_emb * BoolInt(a.use_spk_emb) + a.reserved

\* a returned mask whose text mask hides nothing, on a cache that holds the
\* whole conditioning prefix: what is hidden is hidden by the schedule
ScheduleOnly ==
    /\ mg.op = "mask"
    /\ mg.calls >= 1
    /\ mg.res.ok
    /\ \A j \in 1 .. Len(mg.args.tmask.m) : mg.args.tmask.m[j] = 1
    /\ mg.past >= MaskConditionLength(mg.args) - 1

\* C22 as stated: the range hidden by the schedule lies inside the reserved
\* text region; the audio-bos position is never hidden by the schedule.
C22_AsStated ==
    ScheduleOnly => mg.res.mask[AudioBosPosition(mg.args) + 1] = 0

\* C22: the range hidden by the schedule starts at or after the first
\* reserved text position and ends just after the audio-bos position: its
\* last hidden position is the audio-bos position itself, which the schedule
\* always hides; bos, the speaker slots and the audio positions are not hidden.
C22_RangeIncludesAudioBos ==
    ScheduleOnly =>
        LET a == mg.args
            start == InvisibleTextTokensStart(mg.past, a.reserved, a.audio_chunk,
                                              a.text_chunk, a.num_spk_emb, a.use_spk_emb)
        IN  /\ start >= 1 + a.num_spk_emb * BoolInt(a.use_spk_emb)
            /\ start <= AudioBosPosition(a)
            /\ \A j \in 0 .. Len(mg.res.mask) - 1 :
                  (mg.res.mask[j + 1] = MinDtype) <=> (start <= j /\ j <= AudioBosPosition(a))

\* the schedule hides a reserved text position and the audio-bos position,
\* with audio positions behind them
C22_Witness ==
    /\ ScheduleOnly
    /\ mg.args.reserved >= 2
    /\ mg.res.mask[AudioBosPosition(mg.args)] = MinDtype
    /\ mg.res.mask[AudioBosPosition(mg.args) + 1] = MinDtype
    /\ Len(mg.res.mask) > AudioBosPosition(mg.args) + 1

----------------------------------------------------------------------------
(* The mask generator's arguments in generate and prefill_audio_ids         *)

\* self.streaming_audio_chunk_size of the modelled configuration
StreamingAudioChunkSize == 2

\* the generator called with all five configured values
ConfiguredMask(new_tokens, pkv, tmask) ==
    MakeStreamingChunkMaskGeneration(new_tokens, KvLen(pkv), tmask, ReservedLen,
        StreamingAudioChunkSize, TextChunkSize, NumSpkEmbs, use_speaker_embedding)

\* C23: the mask a generate step builds is the generator's result for the
\* model's configured streaming_audio_chunk_size, num_spk_embs and
\* use_speaker_embedding, together with its configured reserved length and
\* text chunk size.
C23_ConfiguredMask ==
    (pc = "loop" /\ ProgressCheck(progress, kv)) =>
        GenerateMask(kv, args.streaming_tts_text_mask)
            = ConfiguredMask(1, kv, args.streaming_tts_text_mask)

----------------------------------------------------------------------------
(* The audio-bos step                                                       *)

\* the running call has fed the audio-bos embedding: it was entered with
\* condition_length rows and its first step went through
AudioBosFed ==
    /\ pc \in {"loop", "done"}
    /\ i >= 1
    /\ AudioBos(Len(audio_input_ids), ConditionLength(use_speaker_embedding))

\* the caller holds a sequence and a cache with which the first step of a
\* generate call is an audio-bos step that goes through
AudioBosPending ==
    /\ pc = "idle"
    /\ AudioBos(Len(audio_input_ids), ConditionLength(use_speaker_embedding))
    /\ \E tmask \in TextMaskChoices :
          GenerateStepErr(Len(audio_input_ids), past_key_values, tmask,
                          ConditionLength(use_speaker_embedding)) = "none"

\* C24: over the generate calls of one session the audio-bos embedding is fed
\* at one step only, the step at which the running sequence length equals
\* condition_length: the call that has fed it never leaves the caller with a
\* sequence and a cache whose next generate step is an audio-bos step again.
C24_AudioBosOnce == [][AudioBosFed => ~AudioBosPending']_vars

----------------------------------------------------------------------------
(* The logit pipeline of one generate step                                  *)

MaxProcessors == 2
MaxWarpers == 2

\* warpers that run at every step
WarpersAlways(audio_bos) == TRUE

\* `if not audio_bos:` in front of the processors loop
ProcessorsApply(audio_bos) == ~audio_bos

\* `if not audio_bos:` in front of the warpers loop
WarpersApply(audio_bos) == ~audio_bos

PipelineState(audio_bos, step, min_new_token, force_no_stop, np, nw) ==
    [op |-> "pipeline", audio_bos |-> audio_bos, i |-> step,
     min_new_token |-> min_new_token, force_no_stop |-> force_no_stop,
     logits_processors |-> np, logits_warpers |-> nw,
     stage |-> "processors", k |-> 0, trace |-> <<>>, eos_logit |-> "finite",
     idx_next |-> ZeroRow]

\* the step has its logits (already divided by the temperature)
PipelineInit ==
    /\ SessionInit
    /\ use_speaker_embedding
    /\ \E audio_bos \in BOOLEAN, step \in 0 .. MaxNewToken,
          min_new_token \in MinNewTokenChoices, force_no_stop \in BOOLEAN,
          np \in 0 .. MaxProcessors, nw \in 0 .. MaxWarpers :
          mg = PipelineState(audio_bos, step, min_new_token, force_no_stop, np, nw)

PipelineFrame ==
    UNCHANGED <<use_speaker_embedding, initial_kv_cache_length, audio_input_ids,
                past_key_values, audio_positions, pc, i, progress, input_ids_buf,
                kv, finish, idx_next, args, out>>

\* one logits processor of the list is applied
ApplyProcessor ==
    /\ mg.op = "pipeline" /\ mg.stage = "processors"
    /\ ProcessorsApply(mg.audio_bos) /\ mg.k < mg.logits_processors
    /\ mg' = [mg EXCEPT !.k = mg.k + 1, !.trace = Append(mg.trace, "processor")]
    /\ PipelineFrame

\* the processors loop is over, or was skipped
ProcessorsDone ==
    /\ mg.op = "pipeline" /\ mg.stage = "processors"
    /\ ~(ProcessorsApply(mg.audio_bos) /\ mg.k < mg.logits_processors)
    /\ mg' = [mg EXCEPT !.stage = "warpers", !.k = 0]
    /\ PipelineFrame

\* one logits warper of the list is applied
ApplyWarper ==
    /\ mg.op = "pipeline" /\ mg.stage = "warpers"
    /\ WarpersApply(mg.audio_bos) /\ mg.k < mg.logits_warpers
    /\ mg' = [mg EXCEPT !.k = mg.k + 1, !.trace = Append(mg.trace, "warper")]
    /\ PipelineFrame

\* the warpers loop is over, or was skipped
WarpersDone ==
    /\ mg.op = "pipeline" /\ mg.stage = "warpers"
    /\ ~(WarpersApply(mg.audio_bos) /\ mg.k < mg.logits_warpers)
    /\ mg' = [mg EXCEPT !.stage = "eos", !.k = 0]
    /\ PipelineFrame

\* logits[:, eos_token] = -inf below min_new_token and under force_no_stop
SuppressEos ==
    /\ mg.op = "pipeline" /\ mg.stage = "eos"
    /\ mg' = IF EosSuppressed(mg.i, mg.min_new_token, mg.force_no_stop)
             THEN [mg EXCEPT !.stage = "sample", !.eos_logit = "-inf",
                             !.trace = Append(mg.trace, "eos")]
             ELSE [mg EXCEPT !.stage = "sample"]
    /\ PipelineFrame

\* softmax and torch.multinomial: a code with logit -inf is never drawn
Sample ==
    /\ mg.op = "pipeline" /\ mg.stage = "sample"
    /\ \E row \in Rows :
          /\ mg.eos_logit = "-inf" => ~HasEos(row)
          /\ mg' = [mg EXCEPT !.stage = "done", !.idx_next = row,
                              !.trace = Append(mg.trace, "sample")]
    /\ PipelineFrame

PipelineNext ==
    \/ ApplyProcessor
    \/ ProcessorsDone
    \/ ApplyWarper
    \/ WarpersDone
    \/ SuppressEos
    \/ Sample

SpecPipeline == PipelineInit /\ [][PipelineNext]_vars

\* the positions of a stage in the trace
StageAt(name) == {t \in 1 .. Len(mg.trace) : mg.trace[t] = name}

\* C25: at a step other than the audio-bos step all logits processors are
\* applied before all logits warpers, and eos suppression comes after both
\* and before sampling; at the audio-bos step neither processors nor warpers
\* are applied, but eos suppression still is.
C25_PipelineOrder ==
    mg.op = "pipeline" =>
        /\ \A p \in StageAt("processor"), w \in StageAt("warper") : p < w
        /\ \A e \in StageAt("eos") : \A x \in StageAt("processor") \cup StageAt("warper") : x < e
        /\ \A s \in StageAt("sample") : \A e \in StageAt("eos") : e < s
        /\ mg.audio_bos => StageAt("processor") \cup StageAt("warper") = {}
        /\ mg.stage = "done" =>
              /\ ~mg.audio_bos =>
                    /\ Cardinality(StageAt("processor")) = mg.logits_processors
                    /\ Cardinality(StageAt("warper")) = mg.logits_warpers
              /\ EosSuppressed(mg.i, mg.min_new_token, mg.force_no_stop) =>
                    /\ Cardinality(StageAt("eos")) = 1
                    /\ ~HasEos(mg.idx_next)
              /\ Cardinality(StageAt("sample")) = 1

\* a later step ran two processors and two warpers, then suppressed eos
\* and sampled
C25_Witness ==
    /\ mg.op = "pipeline"
    /\ mg.stage = "done"
    /\ ~mg.audio_bos
    /\ mg.trace = <<"processor", "processor", "warper", "warper", "eos", "sample">>

----------------------------------------------------------------------------
(* Termination of generate                                                  *)

\* a call that has started takes its next step or returns
SpecLive == Spec /\ WF_vars(GenerateStep) /\ WF_vars(GenerateReturn)

\* the rows the running call has stored before its last step
EarlierRowsOfCall ==
    {input_ids_buf[j] : j \in Len(audio_input_ids) + 1 .. Len(audio_input_ids) + i - 1}

\* C26: every generate call executes at most max_new_token loop steps and
\* then returns (or raises); it stops before max_new_token steps only at the
\* first step at which some codebook's sampled code equals eos_token.
C26_GenerateTerminates ==
    /\ [](pc = "loop" => i < args.max_new_token)
    /\ [][(pc = "done" /\ pc' = "idle") =>
             /\ i <= args.max_new_token
             /\ i < args.max_new_token => (finish /\ HasEos(idx_next))
             /\ \A row \in EarlierRowsOfCall : ~HasEos(row)]_vars
    /\ (pc = "loop") ~> (pc = "idle")

\* a call with a budget of two steps stopped after its first step, on eos
C26_Witness ==
    /\ pc = "done"
    /\ i = 1
    /\ args.max_new_token = 2
    /\ finish
    /\ HasEos(idx_next)

----------------------------------------------------------------------------
(* The audio-id sequence across a generate call                             *)

\* the return of a generate call
GenerateReturns == pc = "done" /\ pc' = "idle"

EnteredAligned == Len(audio_input_ids) = KvLen(past_key_values) + 1

\* C28 as stated: every generate call entered with sequence length = cache
\* length + 1 hands back a sequence exactly one longer than the cache it
\* hands back, whatever its outcome.
C28_AsStated ==
    [][(GenerateReturns /\ EnteredAligned) =>
          Len(out'.audio_input_ids) = KvLen(out'.past_key_values) + 1]_vars


\* C29: every row of the returned audio-id sequence at index >= condition_length
\* that holds no eos_token code is also in new_ids, at its place; the only row
\* left out of new_ids behind the conditioning prefix is a row holding eos_token.
C29_NoRowLost ==
    Returned =>
        LET cl == ConditionLength(use_speaker_embedding)
        IN  \A j \in cl + 1 .. Len(out.audio_input_ids) :
                ~HasEos(out.audio_input_ids[j]) =>
                    /\ j - cl <= Len(out.new_ids)
                    /\ out.new_ids[j - cl] = out.audio_input_ids[j]


----------------------------------------------------------------------------
(* prefill_text without speaker embedding                                  *)

\* a prefill_text call comes back in a model built with use_speaker_embedding off
PrefillTextDisabled == ~use_speaker_embedding /\ pc = "idle" /\ out'.op = "prefill_text"

\* C30 as stated: with use_speaker_embedding disabled every prefill_text call
\* fails with the NotImplementedError of merge_inputs_embeds, before the KV
\* cache is read or written.
C30_AsStated ==
    [][PrefillTextDisabled =>
          /\ out'.err = "NotImplementedError"
          /\ past_key_values' = past_key_values]_vars

\* C30: with use_speaker_embedding disabled every prefill_text call fails
\* before the KV cache is read or written and hands back no cache: a call
\* with batch size 1 and a cache fails with the NotImplementedError of
\* merge_inputs_embeds, a call that breaks one of the two leading asserts of
\* prefill_text fails with their AssertionError; so the cache never holds a
\* prefilled text position in that configuration.
C30_DisabledNeverPrefills ==
    /\ [][PrefillTextDisabled =>
            /\ out'.err \in {"NotImplementedError", "AssertionError"}
            /\ PrefillText(1, TRUE, out'.input_ids, out'.position_ids, out'.lm_given)
                  => out'.err = "NotImplementedError"
            /\ (\E batch \in 1 .. 2, kv_given \in BOOLEAN :
                   /\ batch # 1 \/ ~kv_given
                   /\ PrefillText(batch, kv_given, out'.input_ids, out'.position_ids,
                                  out'.lm_given))
                  => out'.err = "AssertionError"
            /\ past_key_values' = past_key_values
            /\ "past_key_values" \notin DOMAIN out'
            /\ UNCHANGED <<audio_input_ids, audio_positions>>]_vars
    /\ [](~use_speaker_embedding => TextPositionsPrefilled(past_key_values) = 0)

\* a text chunk that fits the reserved region was refused with
\* NotImplementedError on a cache that already holds audio positions
C30_Witness ==
    /\ ~use_speaker_embedding
    /\ pc = "idle"
    /\ out.op = "prefill_text"
    /\ out.err = "NotImplementedError"
    /\ SpkPositions(out.input_ids) = {}
    /\ out.position_ids \in ContiguousPositionIds
    /\ out.position_ids[Len(out.position_ids)] < KvLen(past_key_values)
    /\ audio_positions > 0
    /\ TextPositionsPrefilled(past_key_values) = 0

====
